---- MODULE Spec2Model ----
(***************************************************************************)
(* Model of package ensure (facebookgo/ensure): the assertion predicates,  *)
(* the condition formatter and the reporting sink they dispatch to.        *)
(*                                                                         *)
(* One behaviour of the model is one invocation of one public predicate:   *)
(* Init draws the predicate, its arguments and the sink; the actions run   *)
(* the predicate's code.  Nothing is shared between invocations (the       *)
(* package keeps no state), so one invocation is the whole story.          *)
(*                                                                         *)
(* A rendered message is kept as the structure fmt would flatten: the      *)
(* format string's name ("shape"), the format arguments in order, and the  *)
(* extra values.                                                           *)
(***************************************************************************)
EXTENDS Integers, Sequences, FiniteSets, TLC

\* Longest slice handed to SameElements.
MaxLen == 3
\* Longest string handed to StringContains / StringDoesNotContain / Err.
MaxStrLen == 2
\* Deepest chain of callers above a predicate (stack-walk variant).
MaxDepth == 3

VARIABLES
    pred,       \* the public predicate that is invoked
    args,       \* its arguments (a record whose fields depend on pred)
    sink,       \* the Fataler it is given
    extra,      \* the trailing variadic values (a ...interface{})
    pc,         \* "ready" (not yet entered), "loop" (in SameElements' outer loop), "done"
    log,        \* the operations performed on the sink so far, in order
    used,       \* SameElements: indexes of actualSlice already matched (used map)
    j,          \* SameElements: index into expectedSlice of the outer loop
    panicking,  \* the panic in flight in the calling goroutine, if any
    exited,     \* the goroutine was ended by the sink's Fatal (runtime.Goexit)
    callStack,  \* stack-walk variant: the goroutine's frames, innermost first
    Skip,       \* stack-walk variant: cond.Skip
    captured,   \* stack-walk variant: the stack.Stack handed to pstack
    location    \* stack-walk variant: what pstack returned

\* The variables of the stack-walk variant (ensure.go with pstack).
stackVars == <<callStack, Skip, captured, location>>

vars == <<pred, args, sink, extra, pc, log, used, j, panicking, exited, stackVars>>

----------------------------------------------------------------------------
(* Values held in an interface{}: a dynamic type and a payload.            *)

NilValue == [t |-> "nil", v |-> "<nil>"]

IntValue(n) == [t |-> "int", v |-> ToString(n)]

IntValues == {IntValue(1), IntValue(2)}

\* The elements of a []interface{}: ints, and an int64 with the payload of
\* IntValue(1).
ElemValues == IntValues \cup {[t |-> "int64", v |-> "1"]}

NilPanicMsg == [t |-> "string", v |-> "can't pass nil to ensure.PanicDeepEqual"]

ErrorValues == {[t |-> "*errors.errorString", v |-> "foo"]}

\* ensure.typ dumps on several lines; a nil *ensure.typ is a non-nil interface.
StructValues == {[t |-> "ensure.typ", v |-> "{Answer:0}"]}
NilPointers == {[t |-> "*ensure.typ", v |-> "<nil>"]}

Values ==
    {NilValue} \cup IntValues \cup {[t |-> "string", v |-> "foo"], NilPanicMsg}
        \cup ErrorValues \cup StructValues \cup NilPointers

\* v.(error): the dynamic type implements error.
IsError(v) == v.t = "*errors.errorString"

\* spew.Sdump(v) spans several lines.
MultiLine(v) == v.t = "ensure.typ"

\* reflect.DeepEqual on the values above: same dynamic type, same payload.
DeepEqualValues(a, b) == a.t = b.t /\ a.v = b.v

\* spew.Sdump(v): the type and the payload, ended by a newline.
Sdump(v) == [type |-> v.t, payload |-> v.v, newline |-> TRUE]

\* tsdump(v): Sdump without the trailing newline.
tsdump(v) == [Sdump(v) EXCEPT !.newline = FALSE]

\* tsdump(a...): the dumps of the values, in order.
tsdumpAll(a) == [i \in 1..Len(a) |-> tsdump(a[i])]

----------------------------------------------------------------------------
(* Strings are sequences of characters; "\n" is the line break.             *)

Alphabet == {"a", "b", "\n"}

RECURSIVE SeqsUpTo(_, _)
SeqsUpTo(S, n) ==
    IF n = 0 THEN {<<>>}
    ELSE LET shorter == SeqsUpTo(S, n - 1)
         IN  shorter \cup {Append(s, x) : s \in {q \in shorter : Len(q) = n - 1}, x \in S}

Strings == SeqsUpTo(Alphabet, MaxStrLen)

\* strings.Contains(s, substr)
Contains(s, substr) ==
    \E i \in 1..(Len(s) + 1) :
        /\ i + Len(substr) - 1 <= Len(s)
        /\ SubSeq(s, i, i + Len(substr) - 1) = substr

\* An error argument of Err: nil, or an error with the text of Error().
NoError == [isNil |-> TRUE, text |-> <<>>]
Errors == {NoError} \cup {[isNil |-> FALSE, text |-> s] : s \in Strings}

\* A *regexp.Regexp argument of Err: nil, or a pattern without
\* metacharacters, which MatchString finds anywhere in the text.
NoRegexp == [isNil |-> TRUE, pat |-> <<>>]
Regexps == {NoRegexp} \cup {[isNil |-> FALSE, pat |-> s] : s \in Strings}

MatchString(re, s) == Contains(s, re.pat)

----------------------------------------------------------------------------
(* The sink.  A Fataler has Fatal; it may also have Helper (testing.T has, *)
(* the tests' capture has not).  Fatal of testing.T ends the goroutine,    *)
(* Fatal of capture returns to its caller.                                 *)

Sinks == [hasHelper : BOOLEAN, returns : BOOLEAN]

capture == [hasHelper |-> FALSE, returns |-> TRUE]
testingT == [hasHelper |-> TRUE, returns |-> FALSE]

Extras == {<<>>, <<IntValue(1)>>}

HelperEvent == [op |-> "Helper"]
FatalEvent(m) == [op |-> "Fatal", msg |-> m]

\* helper where the sink is always wrapped: Helper never reaches it.
helperAlwaysWrapped(t, lg) == lg

\* helper(t).Helper(): reaches the sink only if the sink has Helper;
\* otherwise it is helperWrapper's empty method.
helper(t, lg) == IF t.hasHelper THEN Append(lg, HelperEvent) ELSE lg

\* cond.String(): the format applied to its arguments, then the extras.
String(c) == [shape |-> c.Format, fargs |-> c.FormatArgs, extra |-> tsdumpAll(c.Extra)]

\* fatal(c): mark the helper frame, then Fatal with the rendered message.
fatal(c, lg) == Append(helper(c.Fataler, lg), FatalEvent(String(c)))

cond(t, format, fargs, a) ==
    [Fataler |-> t, Format |-> format, FormatArgs |-> fargs, Extra |-> a]

\* The messages dispatched to the sink, in order.
Dispatched == SelectSeq(log, LAMBDA e : e.op = "Fatal")

NoPanic == [active |-> FALSE, val |-> NilValue]

----------------------------------------------------------------------------
(* Err                                                                      *)

ErrArgs == [err : Errors, re : Regexps]

\* ErrConds with the test of MatchString inverted.
ErrCondsMatchInverted(t, err, re, a) ==
    IF err.isNil /\ re.isNil THEN <<>>
    ELSE IF err.isNil /\ ~re.isNil
        THEN <<cond(t, "expected error: \"%s\" but got a nil error", <<re.pat>>, a)>>
    ELSE IF ~err.isNil /\ re.isNil
        THEN <<cond(t, "unexpected error: %+v", <<err.text>>, a)>>
    ELSE IF MatchString(re, err.text)
        THEN <<cond(t, "expected error: \"%s\" but got \"%+v\"", <<re.pat, err.text>>, a)>>
    ELSE <<>>

\* The conds Err hands to fatal, in order (none or one).
ErrConds(t, err, re, a) ==
    IF err.isNil /\ re.isNil THEN <<>>
    ELSE IF err.isNil /\ ~re.isNil
        THEN <<cond(t, "expected error: \"%s\" but got a nil error", <<re.pat>>, a)>>
    ELSE IF ~err.isNil /\ re.isNil
        THEN <<cond(t, "unexpected error: %+v", <<err.text>>, a)>>
    ELSE IF ~MatchString(re, err.text)
        THEN <<cond(t, "expected error: \"%s\" but got \"%+v\"", <<re.pat, err.text>>, a)>>
    ELSE <<>>

\* A predicate that evaluates its condition once: mark the helper frame,
\* then fatal on the cond if there is one.  A Fatal that does not return
\* ends the goroutine.
RunOnce(conds) ==
    /\ pc = "ready"
    /\ log' = IF conds = <<>> THEN helper(sink, log)
              ELSE fatal(conds[1], helper(sink, log))
    /\ exited' = (conds # <<>> /\ ~sink.returns)
    /\ pc' = "done"
    /\ UNCHANGED <<pred, args, sink, extra, used, j, panicking, stackVars>>

Err ==
    /\ pred = "Err"
    /\ RunOnce(ErrConds(sink, args.err, args.re, extra))


----------------------------------------------------------------------------
(* DeepEqual, NotDeepEqual                                                  *)

PairArgs == [actual : Values, expected : Values]

DeepEqualConds(t, actual, expected, a) ==
    IF ~DeepEqualValues(actual, expected)
        THEN <<cond(t, "expected these to be equal:\nACTUAL:\n%s\nEXPECTED:\n%s",
                    <<Sdump(actual), tsdump(expected)>>, a)>>
    ELSE <<>>

DeepEqual ==
    /\ pred = "DeepEqual"
    /\ RunOnce(DeepEqualConds(sink, args.actual, args.expected, extra))

NotDeepEqualConds(t, actual, expected, a) ==
    IF DeepEqualValues(actual, expected)
        THEN <<cond(t, "expected two different values, but got the same:\n%s",
                    <<tsdump(actual)>>, a)>>
    ELSE <<>>

NotDeepEqual ==
    /\ pred = "NotDeepEqual"
    /\ RunOnce(NotDeepEqualConds(sink, args.actual, args.expected, extra))

----------------------------------------------------------------------------
(* Nil, NotNil                                                              *)

ValueArgs == [v : Values]

\* The separator Nil puts before the dump: a newline if the dump has one.
NilSeparator(v) == IF MultiLine(v) THEN "\n" ELSE " "

\* NilConds without the special case for errors.
NilCondsNoErrorCase(t, v, a) ==
    IF v # NilValue
        THEN <<cond(t, "expected nil value but got:%s%s",
                    <<NilSeparator(v), tsdump(v)>>, a)>>
    ELSE <<>>

NilConds(t, v, a) ==
    IF v # NilValue
        THEN IF IsError(v)
                THEN <<cond(t, "unexpected error: %+v", <<v>>, a)>>
             ELSE <<cond(t, "expected nil value but got:%s%s",
                         <<NilSeparator(v), tsdump(v)>>, a)>>
    ELSE <<>>

Nil ==
    /\ pred = "Nil"
    /\ RunOnce(NilConds(sink, args.v, extra))

NotNilConds(t, v, a) ==
    IF v = NilValue
        THEN <<cond(t, "expected a value but got nil", <<>>, a)>>
    ELSE <<>>

NotNil ==
    /\ pred = "NotNil"
    /\ RunOnce(NotNilConds(sink, args.v, extra))

----------------------------------------------------------------------------
(* True, False                                                              *)

BoolArgs == [v : BOOLEAN]

TrueConds(t, v, a) ==
    IF ~v THEN <<cond(t, "expected true but got false", <<>>, a)>> ELSE <<>>

True ==
    /\ pred = "True"
    /\ RunOnce(TrueConds(sink, args.v, extra))

FalseConds(t, v, a) ==
    IF v THEN <<cond(t, "expected false but got true", <<>>, a)>> ELSE <<>>

False ==
    /\ pred = "False"
    /\ RunOnce(FalseConds(sink, args.v, extra))

----------------------------------------------------------------------------
(* StringContains, StringDoesNotContain                                     *)

StringArgs == [s : Strings, substr : Strings]

SingleLineFormat == "expected substring \"%s\" was not found in \"%s\""
BlockFormat == "expected substring was not found:\nEXPECTED SUBSTRING:\n%s\nACTUAL:\n%s"

\* StringContainsFormat looking for a newline in s alone.
StringContainsFormatOnlyS(s, substr) ==
    IF Contains(s, <<"\n">>) THEN BlockFormat ELSE SingleLineFormat

\* use multi line output if either string contains newlines
StringContainsFormat(s, substr) ==
    IF Contains(s, <<"\n">>) \/ Contains(substr, <<"\n">>)
        THEN BlockFormat
    ELSE SingleLineFormat

StringContainsConds(t, s, substr, a) ==
    IF ~Contains(s, substr)
        THEN <<cond(t, StringContainsFormat(s, substr), <<substr, s>>, a)>>
    ELSE <<>>

StringContains ==
    /\ pred = "StringContains"
    /\ RunOnce(StringContainsConds(sink, args.s, args.substr, extra))

StringDoesNotContainConds(t, s, substr, a) ==
    IF Contains(s, substr)
        THEN <<cond(t, "substring \"%s\" was not supposed to be found in \"%s\"",
                    <<substr, s>>, a)>>
    ELSE <<>>

StringDoesNotContain ==
    /\ pred = "StringDoesNotContain"
    /\ RunOnce(StringDoesNotContainConds(sink, args.s, args.substr, extra))


----------------------------------------------------------------------------
(* SameElements                                                             *)

\* A slice argument: its type and its elements.  A []int holds
\* ints; a []interface{} holds values of any dynamic type.
Slices ==
    {[type |-> "[]int", items |-> q] : q \in SeqsUpTo(IntValues, MaxLen)}
        \cup {[type |-> "[]interface {}", items |-> q] : q \in SeqsUpTo(ElemValues, MaxLen)}

SliceArgs == [actual : Slices, expected : Slices]

\* makes any slice into an []interface{}
toInterfaceSlice(v) == [i \in 1..Len(v.items) |-> v.items[i]]

\* tsdump of a whole slice.
tsdumpSlice(v) == [type |-> v.type, payload |-> v.items, newline |-> FALSE]

actualSlice == toInterfaceSlice(args.actual)
expectedSlice == toInterfaceSlice(args.expected)

\* FirstAvailable without the test of used: an element of actualSlice may
\* be matched twice.
RECURSIVE FirstAvailableIgnoringUsed(_, _, _, _)
FirstAvailableIgnoringUsed(a, actuals, u, i) ==
    IF i > Len(actuals) THEN 0
    ELSE IF DeepEqualValues(a, actuals[i]) THEN i
    ELSE FirstAvailableIgnoringUsed(a, actuals, u, i + 1)

\* FirstAvailable that stops one short: the last element of actualSlice
\* is never looked at.
RECURSIVE FirstAvailableStopsShort(_, _, _, _)
FirstAvailableStopsShort(a, actuals, u, i) ==
    IF i >= Len(actuals) THEN 0
    ELSE IF i \notin u /\ DeepEqualValues(a, actuals[i]) THEN i
    ELSE FirstAvailableStopsShort(a, actuals, u, i + 1)

\* The inner loop: the first index from i on of actualSlice that is not
\* used and holds a value DeepEqual to a; 0 when the loop runs off the end.
RECURSIVE FirstAvailable(_, _, _, _)
FirstAvailable(a, actuals, u, i) ==
    IF i > Len(actuals) THEN 0
    ELSE IF i \notin u /\ DeepEqualValues(a, actuals[i]) THEN i
    ELSE FirstAvailable(a, actuals, u, i + 1)

DifferentLengths(actuals, expecteds) == Len(actuals) # Len(expecteds)

LengthsFormat ==
    "expected same elements but found slices of different lengths:\nACTUAL:\n%s\nEXPECTED\n%s"
MissingFormat ==
    "missing expected element:\nACTUAL:\n%s\nEXPECTED:\n%s\nMISSING ELEMENT\n%s"

\* Where control is after a call of fatal: at next if the sink's Fatal
\* returned, nowhere if it ended the goroutine.
AfterFatal(next) ==
    IF sink.returns
        THEN pc' = next /\ exited' = FALSE
    ELSE pc' = "done" /\ exited' = TRUE

\* Entry, conversion of both arguments and the length check.  There is no
\* return after the call of fatal: control falls into the loop.
SameElementsEnter ==
    /\ pred = "SameElements"
    /\ pc = "ready"
    /\ IF DifferentLengths(actualSlice, expectedSlice)
          THEN /\ log' = fatal(cond(sink, LengthsFormat,
                                    <<tsdumpSlice(args.actual), tsdumpSlice(args.expected)>>,
                                    extra),
                               helper(sink, log))
               /\ AfterFatal("loop")
       ELSE /\ log' = helper(sink, log)
            /\ pc' = "loop"
            /\ exited' = FALSE
    /\ used' = {}
    /\ j' = 1
    /\ UNCHANGED <<pred, args, sink, extra, panicking, stackVars>>

\* One pass of the outer loop that finds a match: mark it, continue outer.
SameElementsMatch ==
    /\ pc = "loop"
    /\ j <= Len(expectedSlice)
    /\ LET i == FirstAvailable(expectedSlice[j], actualSlice, used, 1)
       IN  /\ i # 0
           /\ used' = used \cup {i}
    /\ j' = j + 1
    /\ UNCHANGED <<pred, args, sink, extra, pc, log, panicking, exited, stackVars>>

\* One pass of the outer loop that finds none: fatal, and, the call of
\* fatal being the last statement of the loop body, on to the next element.
SameElementsMissing ==
    /\ pc = "loop"
    /\ j <= Len(expectedSlice)
    /\ FirstAvailable(expectedSlice[j], actualSlice, used, 1) = 0
    /\ log' = fatal(cond(sink, MissingFormat,
                         <<tsdumpSlice(args.actual), tsdumpSlice(args.expected),
                           tsdump(expectedSlice[j])>>,
                         extra),
                    log)
    /\ AfterFatal("loop")
    /\ j' = IF sink.returns THEN j + 1 ELSE j
    /\ UNCHANGED <<pred, args, sink, extra, used, panicking, stackVars>>

\* The outer loop is exhausted: SameElements returns.
SameElementsReturn ==
    /\ pc = "loop"
    /\ j > Len(expectedSlice)
    /\ pc' = "done"
    /\ UNCHANGED <<pred, args, sink, extra, log, used, j, panicking, exited, stackVars>>

----------------------------------------------------------------------------
(* PanicDeepEqual, run as the deferred call of a scope                      *)

\* The scope either returned normally or panicked with a value.
Panics == {NoPanic} \cup {[active |-> TRUE, val |-> v] : v \in Values}

\* expected, and how the scope that deferred the call ended.
PanicArgs == [expected : Values, scope : Panics]

\* recover() where it recovers nothing (as when it is not called by the
\* deferred function itself).
recoverNothing(p) == NilValue

\* recover() in the deferred function: the value of the panic in flight,
\* nil when there is none (and for panic(nil), as the language defined it
\* when this package was written).
recover(p) == IF p.active THEN p.val ELSE NilValue

\* PanicDeepEqualConds that compares only when something was recovered.
PanicDeepEqualCondsOnlyOnPanic(t, actual, expected, a) ==
    IF actual # NilValue /\ ~DeepEqualValues(actual, expected)
        THEN <<cond(t, "expected these to be equal:\nACTUAL:\n%s\nEXPECTED:\n%s",
                    <<Sdump(actual), tsdump(expected)>>, a)>>
    ELSE <<>>

PanicDeepEqualConds(t, actual, expected, a) ==
    IF ~DeepEqualValues(actual, expected)
        THEN <<cond(t, "expected these to be equal:\nACTUAL:\n%s\nEXPECTED:\n%s",
                    <<Sdump(actual), tsdump(expected)>>, a)>>
    ELSE <<>>

\* The test of expected == nil left out.
NilExpectedUnchecked(expected) == FALSE

\* expected == nil: panic, before recover() and before any cond is built.
NilExpected(expected) == expected = NilValue

PanicDeepEqualNil ==
    /\ pred = "PanicDeepEqual"
    /\ pc = "ready"
    /\ NilExpected(args.expected)
    /\ log' = helper(sink, log)
    /\ panicking' = [active |-> TRUE, val |-> NilPanicMsg]
    /\ pc' = "done"
    /\ UNCHANGED <<pred, args, sink, extra, used, j, exited, stackVars>>

PanicDeepEqual ==
    /\ pred = "PanicDeepEqual"
    /\ pc = "ready"
    /\ ~NilExpected(args.expected)
    /\ LET conds == PanicDeepEqualConds(sink, recover(panicking), args.expected, extra)
       IN  /\ log' = IF conds = <<>> THEN helper(sink, log)
                     ELSE fatal(conds[1], helper(sink, log))
           /\ exited' = (conds # <<>> /\ ~sink.returns)
    /\ panicking' = NoPanic
    /\ pc' = "done"
    /\ UNCHANGED <<pred, args, sink, extra, used, j, stackVars>>

----------------------------------------------------------------------------
(* The stack-walk variant (ensure.go): cond.String prefixes the message    *)
(* with pstack(stack.Callers(c.Skip+1)).                                   *)

NoLocation == [form |-> "none"]

\* Function names, as characters: a test function, a helper, and two names
\* that hold "Test" or a part of it without beginning with it.
TestPrefix == <<"T", "e", "s", "t">>
Names ==
    {TestPrefix \o <<"X">>, <<"i", "n", "d">>, <<"T", "e", "s">>, <<"x">> \o TestPrefix}

\* A stack.Frame of a caller: File (directory, base name), Line, Name.
CallerFrames ==
    [file : {<<"github.com/facebookgo/ensure", "ensure_test.go">>},
     line : {13, 20},
     name : Names]

\* A frame of this package: the predicates, fatal and cond.String.
ToolkitFrame(name) ==
    [file |-> <<"github.com/facebookgo/ensure", "ensure.go">>, line |-> 0, name |-> name]

IsToolkitFrame(f) == f.file[2] = "ensure.go"

\* The chains of callers above a predicate, innermost first.
CallerChains == SeqsUpTo(CallerFrames, MaxDepth) \ {<<>>}

StackPredicates ==
    {"Err", "DeepEqual", "NotDeepEqual", "Subset", "Nil", "NotNil", "True",
     "StringContains", "StringDoesNotContain", "SameElements"}

\* strings.HasPrefix(s, prefix)
HasPrefix(s, prefix) ==
    /\ Len(s) >= Len(prefix)
    /\ SubSeq(s, 1, Len(prefix)) = prefix

isTestFrame(f) == HasPrefix(f.name, TestPrefix)

\* filepath.Base of File.
Base(file) == file[Len(file)]

\* fmt.Sprintf("%s:%d: ", filepath.Base(first.File), first.Line)
PrefixLocation(f) == [form |-> "prefix", file |-> Base(f.file), line |-> f.line]

\* "        " + s.String() + "\n": the frames of s, one to a line.
TraceLocation(q) == [form |-> "trace", frames |-> q]

\* pstack's loop with the test of isTestFrame before the append: the
\* test frame is left out of the trace.
RECURSIVE pstackLoopExclusive(_, _, _)
pstackLoopExclusive(q, i, snew) ==
    IF i > Len(q) THEN TraceLocation(q)
    ELSE IF isTestFrame(q[i]) THEN TraceLocation(snew)
    ELSE pstackLoopExclusive(q, i + 1, Append(snew, q[i]))

\* pstack's loop from frame i on, snew being what it has appended so far.
RECURSIVE pstackLoop(_, _, _)
pstackLoop(q, i, snew) ==
    IF i > Len(q) THEN TraceLocation(q)
    ELSE IF isTestFrame(q[i]) THEN TraceLocation(Append(snew, q[i]))
    ELSE pstackLoop(q, i + 1, Append(snew, q[i]))

\* pstack is the stack upto the Test function frame.  s[0] of an empty
\* stack is an index out of range.
pstack(q) ==
    IF q = <<>> THEN [form |-> "index out of range"]
    ELSE IF isTestFrame(q[1]) THEN PrefixLocation(q[1])
    ELSE pstackLoop(q, 1, <<>>)

\* stack.Callers(skip) called in a function whose frame is st[1]: skip 0
\* is that function.
Callers(skip, st) == SubSeq(st, skip + 1, Len(st))

\* fatal with Skip raised by one only.
fatalSkipOne(skip) == skip + 1

\* fatal: c.Skip = c.Skip + 2, to skip itself as well as the caller.
fatalSkip(skip) == skip + 2

\* cond.String: stack.Callers(c.Skip+1)
StringCallers(skip, st) == Callers(skip + 1, st)

\* A caller invokes the predicate.
StackPredicate ==
    /\ pc = "caller"
    /\ callStack' = <<ToolkitFrame(pred)>> \o callStack
    /\ pc' = "predicate"
    /\ UNCHANGED <<pred, args, sink, extra, log, used, j, panicking, exited,
                   Skip, captured, location>>

\* The predicate finds its condition violated and calls fatal(cond{...}),
\* Skip being left at zero; fatal raises Skip.
StackFatal ==
    /\ pc = "predicate"
    /\ callStack' = <<ToolkitFrame("fatal")>> \o callStack
    /\ Skip' = fatalSkip(0)
    /\ pc' = "fatal"
    /\ UNCHANGED <<pred, args, sink, extra, log, used, j, panicking, exited,
                   captured, location>>

\* fatal calls c.String(), which captures the stack and resolves it.
StackString ==
    /\ pc = "fatal"
    /\ callStack' = <<ToolkitFrame("cond.String")>> \o callStack
    /\ captured' = StringCallers(Skip, callStack')
    /\ location' = pstack(captured')
    /\ pc' = "String"
    /\ UNCHANGED <<pred, args, sink, extra, log, used, j, panicking, exited, Skip>>

\* String returns and fatal hands the message to the sink.
StackDispatch ==
    /\ pc = "String"
    /\ callStack' = Tail(callStack)
    /\ log' = Append(log, FatalEvent([location |-> location, shape |-> pred]))
    /\ exited' = ~sink.returns
    /\ pc' = "done"
    /\ UNCHANGED <<pred, args, sink, extra, used, j, panicking, Skip, captured, location>>

StackInit ==
    /\ pred \in StackPredicates
    /\ args \in [callers : CallerChains]
    /\ sink \in {t \in Sinks : ~t.hasHelper}
    /\ extra = <<>>
    /\ pc = "caller"
    /\ log = <<>>
    /\ used = {}
    /\ j = 0
    /\ panicking = NoPanic
    /\ exited = FALSE
    /\ callStack = args.callers
    /\ Skip = 0
    /\ captured = <<>>
    /\ location = NoLocation

StackNext ==
    \/ StackPredicate
    \/ StackFatal
    \/ StackString
    \/ StackDispatch

StackSpec == StackInit /\ [][StackNext]_vars

----------------------------------------------------------------------------

InitCall ==
    \/ pred = "Err" /\ args \in ErrArgs /\ panicking = NoPanic
    \/ pred = "DeepEqual" /\ args \in PairArgs /\ panicking = NoPanic
    \/ pred = "NotDeepEqual" /\ args \in PairArgs /\ panicking = NoPanic
    \/ pred = "Nil" /\ args \in ValueArgs /\ panicking = NoPanic
    \/ pred = "NotNil" /\ args \in ValueArgs /\ panicking = NoPanic
    \/ pred = "True" /\ args \in BoolArgs /\ panicking = NoPanic
    \/ pred = "False" /\ args \in BoolArgs /\ panicking = NoPanic
    \/ pred = "StringContains" /\ args \in StringArgs /\ panicking = NoPanic
    \/ pred = "StringDoesNotContain" /\ args \in StringArgs /\ panicking = NoPanic
    \/ pred = "SameElements" /\ args \in SliceArgs /\ panicking = NoPanic
    \/ pred = "PanicDeepEqual" /\ args \in PanicArgs /\ panicking = args.scope

Init ==
    /\ InitCall
    /\ sink \in Sinks
    /\ extra \in Extras
    /\ pc = "ready"
    /\ log = <<>>
    /\ used = {}
    /\ j = 0
    /\ exited = FALSE
    /\ callStack = <<>>
    /\ Skip = 0
    /\ captured = <<>>
    /\ location = NoLocation

Next ==
    \/ Err
    \/ DeepEqual
    \/ NotDeepEqual
    \/ Nil
    \/ NotNil
    \/ True
    \/ False
    \/ StringContains
    \/ StringDoesNotContain
    \/ SameElementsEnter
    \/ SameElementsMatch
    \/ SameElementsMissing
    \/ SameElementsReturn
    \/ PanicDeepEqualNil
    \/ PanicDeepEqual

Spec == Init /\ [][Next]_vars

----------------------------------------------------------------------------
(* What the claims speak of, stated without the algorithm.                  *)

Returned == pc = "done"

NumDispatched == Len(Dispatched)

Shapes == [i \in 1..Len(Dispatched) |-> Dispatched[i].msg.shape]

MissingDispatches == SelectSeq(Dispatched, LAMBDA e : e.msg.shape = MissingFormat)

Count(v, q) == Cardinality({i \in 1..Len(q) : DeepEqualValues(q[i], v)})

Range(q) == {q[i] : i \in 1..Len(q)}

\* A full one-to-one pairing of expecteds with actuals by structural equality.
HasPairing(actuals, expecteds) ==
    /\ Len(actuals) = Len(expecteds)
    /\ \E f \in Permutations(1..Len(expecteds)) :
           \A i \in 1..Len(expecteds) : DeepEqualValues(expecteds[i], actuals[f[i]])

\* Every value occurs with the same multiplicity in both.
SameMultiplicities(actuals, expecteds) ==
    \A v \in Range(actuals) \cup Range(expecteds) :
        Count(v, actuals) = Count(v, expecteds)

\* expecteds[k] occurs more often in expecteds[1..k] than in all of actuals.
Excess(actuals, expecteds, k) ==
    Count(expecteds[k], SubSeq(expecteds, 1, k)) > Count(expecteds[k], actuals)

\* sub is a substring of s: s is sub between a prefix and a suffix.
IsSubstring(sub, s) ==
    \E p, q \in SeqsUpTo(Alphabet, Len(s)) : p \o sub \o q = s

HasLineBreak(s) == \E i \in 1..Len(s) : s[i] = "\n"

\* The condition each predicate guards.
ConditionHolds ==
    CASE pred = "Err" ->
            \/ args.err.isNil /\ args.re.isNil
            \/ ~args.err.isNil /\ ~args.re.isNil /\ IsSubstring(args.re.pat, args.err.text)
      [] pred = "DeepEqual" -> args.actual = args.expected
      [] pred = "NotDeepEqual" -> args.actual # args.expected
      [] pred = "Nil" -> args.v = NilValue
      [] pred = "NotNil" -> args.v # NilValue
      [] pred = "True" -> args.v
      [] pred = "False" -> ~args.v
      [] pred = "StringContains" -> IsSubstring(args.substr, args.s)
      [] pred = "StringDoesNotContain" -> ~IsSubstring(args.substr, args.s)
      [] pred = "SameElements" -> HasPairing(actualSlice, expectedSlice)
      [] pred = "PanicDeepEqual" -> args.scope.active /\ args.scope.val = args.expected

\* PanicDeepEqual(t, nil) is a usage error, not an evaluation of a condition.
UsageError == pred = "PanicDeepEqual" /\ args.expected = NilValue

----------------------------------------------------------------------------
(* C1: one invocation of any public predicate, with any sink, dispatches   *)
(* exactly one message when the guarded condition is violated and none     *)
(* when it holds.                                                          *)
C1_OneDispatchPerFailure ==
    (Returned /\ ~UsageError) =>
        NumDispatched = IF ConditionHolds THEN 0 ELSE 1

\* The same for every predicate but SameElements, and for SameElements with
\* a sink whose Fatal does not return: there it holds.
C1_HoldsApartFromSameElements ==
    (Returned /\ ~UsageError /\ (pred # "SameElements" \/ ~sink.returns)) =>
        NumDispatched = IF ConditionHolds THEN 0 ELSE 1

(* C2: on sequences of equal length SameElements dispatches nothing if and *)
(* only if the sequences are permutations of each other under structural   *)
(* equality, that is, every value has the same multiplicity in both; the   *)
(* greedy matching rejects no pair that has a full pairing and accepts no  *)
(* pair that has none.                                                     *)
C2_NoDispatchIffPermutation ==
    (Returned /\ pred = "SameElements" /\ Len(actualSlice) = Len(expectedSlice)) =>
        /\ (NumDispatched = 0) <=> HasPairing(actualSlice, expectedSlice)
        /\ (NumDispatched = 0) <=> SameMultiplicities(actualSlice, expectedSlice)

\* A permutation with a repeated value, in another order, accepted.
C2_Witness ==
    /\ Returned
    /\ pred = "SameElements"
    /\ Len(expectedSlice) = 3
    /\ actualSlice # expectedSlice
    /\ Count(expectedSlice[1], expectedSlice) = 2
    /\ used = {1, 2, 3}
    /\ NumDispatched = 0

(* C3: given sequences of different lengths SameElements does not proceed  *)
(* to element matching: no element is marked as matched and no "missing    *)
(* expected element" message is dispatched in that call.                   *)
C3_NoMatchingAfterLengthFailure ==
    (pred = "SameElements" /\ Len(actualSlice) # Len(expectedSlice)) =>
        /\ used = {}
        /\ MissingDispatches = <<>>

(* C4: once an expected element has no available element in actual, the   *)
(* call fails there: no later expected element is scanned, marked or       *)
(* reported as missing in the same call.  Stated on sequences of equal     *)
(* length, where the length check plays no part.                           *)
C4_StopsAtFirstMissing ==
    [][(/\ pred = "SameElements"
        /\ Len(actualSlice) = Len(expectedSlice)
        /\ MissingDispatches # <<>>)
           => UNCHANGED <<used, j, log>>]_vars

(* C5: for equal-length sequences that are not multiset-equal, the first   *)
(* missing-element message reports the expected element at the lowest      *)
(* index k at which expected[k] occurs more often in expected[0..k] than   *)
(* in the whole of actual.                                                 *)
C5_ReportsLowestExcess ==
    (/\ Returned
     /\ pred = "SameElements"
     /\ Len(actualSlice) = Len(expectedSlice)
     /\ ~SameMultiplicities(actualSlice, expectedSlice)) =>
        /\ MissingDispatches # <<>>
        /\ \E k \in 1..Len(expectedSlice) :
              /\ Excess(actualSlice, expectedSlice, k)
              /\ \A m \in 1..(k - 1) : ~Excess(actualSlice, expectedSlice, m)
              /\ MissingDispatches[1].msg.fargs[3] = tsdump(expectedSlice[k])

\* actual [1,2], expected [1,1] reports 1.
C5_Witness ==
    /\ Returned
    /\ pred = "SameElements"
    /\ actualSlice = <<IntValue(1), IntValue(2)>>
    /\ expectedSlice = <<IntValue(1), IntValue(1)>>
    /\ MissingDispatches # <<>>
    /\ MissingDispatches[1].msg.fargs[3] = tsdump(IntValue(1))


(* C6: Err decides on (error present?, pattern present?): both absent,     *)
(* no dispatch at all; error absent and pattern present, one dispatch of   *)
(* the "got a nil error" shape; error present and pattern absent, one      *)
(* dispatch of the "unexpected error" shape; both present, one dispatch    *)
(* of the "expected error ... but got ..." shape if and only if the        *)
(* pattern does not match the error's text, otherwise none.                *)
C6_ErrFourWay ==
    (Returned /\ pred = "Err") =>
        CASE args.err.isNil /\ args.re.isNil ->
                Dispatched = <<>>
          [] args.err.isNil /\ ~args.re.isNil ->
                Shapes = <<"expected error: \"%s\" but got a nil error">>
          [] ~args.err.isNil /\ args.re.isNil ->
                Shapes = <<"unexpected error: %+v">>
          [] ~args.err.isNil /\ ~args.re.isNil ->
                IF IsSubstring(args.re.pat, args.err.text)
                    THEN Dispatched = <<>>
                ELSE Shapes = <<"expected error: \"%s\" but got \"%+v\"">>

\* Error "a" against pattern "b": the mismatch message, with both in it.
C6_Witness ==
    /\ Returned
    /\ pred = "Err"
    /\ args.err = [isNil |-> FALSE, text |-> <<"a">>]
    /\ args.re = [isNil |-> FALSE, pat |-> <<"b">>]
    /\ NumDispatched = 1
    /\ Dispatched[1].msg.fargs = <<(<<"b">>), (<<"a">>)>>

(* C7: StringContains(s, sub) dispatches if and only if sub is not a       *)
(* substring of s, and the message has the block form if and only if s or  *)
(* sub contains a line break, otherwise the single-line quoted form.       *)
C7_StringContains ==
    (Returned /\ pred = "StringContains") =>
        IF IsSubstring(args.substr, args.s)
            THEN Dispatched = <<>>
        ELSE /\ NumDispatched = 1
             /\ Dispatched[1].msg.fargs = <<args.substr, args.s>>
             /\ Dispatched[1].msg.shape =
                    IF HasLineBreak(args.s) \/ HasLineBreak(args.substr)
                        THEN BlockFormat
                    ELSE SingleLineFormat

\* The line break is in the substring alone, and the block form is used.
C7_Witness ==
    /\ Returned
    /\ pred = "StringContains"
    /\ args.s = <<"a", "b">>
    /\ args.substr = <<"b", "\n">>
    /\ Shapes = <<BlockFormat>>

(* C8: Nil(v) dispatches nothing when v is nil; for every other v it       *)
(* dispatches one message, of the "unexpected error" shape if v is an      *)
(* error and of the "expected nil value but got:" shape otherwise.         *)
C8_NilShapes ==
    (Returned /\ pred = "Nil") =>
        IF args.v = NilValue
            THEN Dispatched = <<>>
        ELSE IF args.v \in ErrorValues
            THEN Shapes = <<"unexpected error: %+v">>
        ELSE Shapes = <<"expected nil value but got:%s%s">>

\* Nil of an error: the error shape, carrying the error.
C8_Witness ==
    /\ Returned
    /\ pred = "Nil"
    /\ args.v \in ErrorValues
    /\ Shapes = <<"unexpected error: %+v">>
    /\ Dispatched[1].msg.fargs = <<args.v>>

(* C9: PanicDeepEqual deferred with a non-nil expected value e around a    *)
(* scope that panics with v dispatches if and only if v is not             *)
(* structurally equal to e, and the message carries v as ACTUAL and e as   *)
(* EXPECTED.                                                               *)
C9_PanicDeepEqual ==
    (/\ Returned
     /\ pred = "PanicDeepEqual"
     /\ args.expected # NilValue
     /\ args.scope.active) =>
        IF args.scope.val = args.expected
            THEN Dispatched = <<>>
        ELSE /\ Shapes = <<"expected these to be equal:\nACTUAL:\n%s\nEXPECTED:\n%s">>
             /\ Dispatched[1].msg.fargs[1].type = args.scope.val.t
             /\ Dispatched[1].msg.fargs[1].payload = args.scope.val.v
             /\ Dispatched[1].msg.fargs[2].type = args.expected.t
             /\ Dispatched[1].msg.fargs[2].payload = args.expected.v

\* panic(2) against expected 1.
C9_Witness ==
    /\ Returned
    /\ pred = "PanicDeepEqual"
    /\ args.scope = [active |-> TRUE, val |-> IntValue(2)]
    /\ args.expected = IntValue(1)
    /\ NumDispatched = 1
    /\ Dispatched[1].msg.fargs[1].payload = "2"
    /\ Dispatched[1].msg.fargs[2].payload = "1"

(* C10: PanicDeepEqual with nil as expected panics with "can't pass nil    *)
(* to ensure.PanicDeepEqual", whether or not the scope panicked, and       *)
(* dispatches nothing to the sink in that call.                            *)
C10_NilExpectedPanics ==
    (Returned /\ pred = "PanicDeepEqual" /\ args.expected = NilValue) =>
        /\ panicking = [active |-> TRUE, val |-> NilPanicMsg]
        /\ Dispatched = <<>>
        /\ ~exited

\* The scope had panicked with 1 and the call with nil panics anew.
C10_Witness ==
    /\ Returned
    /\ pred = "PanicDeepEqual"
    /\ args.expected = NilValue
    /\ args.scope = [active |-> TRUE, val |-> IntValue(1)]
    /\ panicking.val = NilPanicMsg
    /\ Dispatched = <<>>

(* C11: PanicDeepEqual ensures a panic occurs: deferred with a non-nil     *)
(* expected value around a scope that ends without panicking, it           *)
(* dispatches exactly one failure message; it never passes silently.       *)
C11_NoPanicFails ==
    (/\ Returned
     /\ pred = "PanicDeepEqual"
     /\ args.expected # NilValue
     /\ ~args.scope.active) =>
        /\ Shapes = <<"expected these to be equal:\nACTUAL:\n%s\nEXPECTED:\n%s">>
        /\ Dispatched[1].msg.fargs[1] = Sdump(NilValue)
        /\ Dispatched[1].msg.fargs[2] = tsdump(args.expected)

\* The scope returned normally, expected is 1: one message, ACTUAL nil.
C11_Witness ==
    /\ Returned
    /\ pred = "PanicDeepEqual"
    /\ args.scope = NoPanic
    /\ args.expected = IntValue(1)
    /\ NumDispatched = 1
    /\ Dispatched[1].msg.fargs[1].type = "nil"

----------------------------------------------------------------------------
(* The stack-walk variant, under StackSpec.                                 *)

Resolved == pc \in {"String", "done"}

\* A test-entry frame: the function's name begins with "Test".
IsTestEntry(f) ==
    /\ Len(f.name) >= 4
    /\ f.name[1] = "T" /\ f.name[2] = "e" /\ f.name[3] = "s" /\ f.name[4] = "t"

TestEntries(q) == {k \in 1..Len(q) : IsTestEntry(q[k])}

FirstTestEntry(q) == CHOOSE k \in TestEntries(q) : \A m \in TestEntries(q) : k <= m

(* C12: for every captured stack, if the first frame is a test-entry       *)
(* frame the location is the single "file:line: " of that frame;           *)
(* otherwise the trace is exactly the frames from the first up to and      *)
(* including the first test-entry frame, in order, and none beyond; if no  *)
(* frame is a test-entry frame the trace is the entire captured stack.     *)
C12_StackWalk ==
    Resolved =>
        IF IsTestEntry(captured[1])
            THEN /\ location.form = "prefix"
                 /\ location.file = captured[1].file[2]
                 /\ location.line = captured[1].line
        ELSE /\ location.form = "trace"
             /\ location.frames =
                    IF TestEntries(captured) # {}
                        THEN SubSeq(captured, 1, FirstTestEntry(captured))
                    ELSE captured

\* A helper called by a test called by something else: the trace holds
\* the helper and the test, and stops there.
C12_Witness ==
    /\ pc = "done"
    /\ Len(captured) = 3
    /\ ~IsTestEntry(captured[1])
    /\ IsTestEntry(captured[2])
    /\ location.form = "trace"
    /\ location.frames = SubSeq(captured, 1, 2)

(* C13: for every public predicate the stack handed to the location        *)
(* resolver starts at the frame that invoked the predicate: the frames of  *)
(* cond.String, fatal and the predicate are skipped, no frame of the       *)
(* toolkit is reported and the caller's frame is not skipped.              *)
C13_StartsAtCaller ==
    Resolved =>
        /\ captured = args.callers
        /\ \A k \in 1..Len(captured) : ~IsToolkitFrame(captured[k])
        /\ location.form = "prefix" => location.file # "ensure.go"
        /\ location.form = "trace" =>
               /\ location.frames[1] = args.callers[1]
               /\ \A k \in 1..Len(location.frames) : ~IsToolkitFrame(location.frames[k])

\* Err called by a test function directly: the prefix is the test's frame,
\* three toolkit frames having been skipped.
C13_Witness ==
    /\ pc = "String"
    /\ pred = "Err"
    /\ Len(callStack) = Len(args.callers) + 3
    /\ IsToolkitFrame(callStack[3])
    /\ captured[1] = args.callers[1]
    /\ IsTestEntry(captured[1])
    /\ location = [form |-> "prefix", file |-> "ensure_test.go", line |-> captured[1].line]

----------------------------------------------------------------------------
(* The delegated variant again, under Spec.                                 *)

\* The cond a predicate that decides once builds when given the sink t.
CondsFor(t) ==
    CASE pred = "Err" -> ErrConds(t, args.err, args.re, extra)
      [] pred = "DeepEqual" -> DeepEqualConds(t, args.actual, args.expected, extra)
      [] pred = "NotDeepEqual" -> NotDeepEqualConds(t, args.actual, args.expected, extra)
      [] pred = "Nil" -> NilConds(t, args.v, extra)
      [] pred = "NotNil" -> NotNilConds(t, args.v, extra)
      [] pred = "True" -> TrueConds(t, args.v, extra)
      [] pred = "False" -> FalseConds(t, args.v, extra)
      [] pred = "StringContains" -> StringContainsConds(t, args.s, args.substr, extra)
      [] pred = "StringDoesNotContain" ->
            StringDoesNotContainConds(t, args.s, args.substr, extra)
      [] pred = "PanicDeepEqual" ->
            PanicDeepEqualConds(t, recover(args.scope), args.expected, extra)

(* C14: every failing predicate call invokes the sink's Helper before its  *)
(* Fatal whenever the sink has Helper; when it has not, the marking is a   *)
(* no-op on a wrapper (nothing but Fatal reaches the sink) and the message *)
(* is still delivered to the sink, the same message a sink with Helper is  *)
(* given.                                                                  *)
C14_HelperBeforeFatal ==
    /\ sink.hasHelper =>
           \A i \in 1..Len(log) :
               log[i].op = "Fatal" => (i > 1 /\ log[i - 1].op = "Helper")
    /\ ~sink.hasHelper =>
           /\ \A i \in 1..Len(log) : log[i].op = "Fatal"
           /\ (Returned /\ ~UsageError /\ ~ConditionHolds) => NumDispatched >= 1
           /\ (Returned /\ ~UsageError /\ ~ConditionHolds /\ pred # "SameElements") =>
                  \A t \in Sinks :
                      /\ CondsFor(t) # <<>>
                      /\ Dispatched[1].msg = String(CondsFor(t)[1])
           /\ (pred = "SameElements") =>
                  \A i \in 1..NumDispatched :
                      /\ Dispatched[i].msg.shape \in {LengthsFormat, MissingFormat}
                      /\ Dispatched[i].msg.fargs[1] = tsdumpSlice(args.actual)
                      /\ Dispatched[i].msg.fargs[2] = tsdumpSlice(args.expected)
                      /\ Dispatched[i].msg.extra = tsdumpAll(extra)

\* Err fails on testing.T: Helper by Err, Helper by fatal, then Fatal.
C14_Witness ==
    /\ Returned
    /\ pred = "Err"
    /\ sink = testingT
    /\ Len(log) = 3
    /\ log[1].op = "Helper"
    /\ log[2].op = "Helper"
    /\ log[3].op = "Fatal"

\* True fails on the tests' capture: Fatal alone reaches it.
C14_WrapperCase ==
    /\ Returned
    /\ pred = "True"
    /\ sink = capture
    /\ Len(log) = 1
    /\ log[1].op = "Fatal"

====
